---- MODULE Spec2Model ----
(***************************************************************************)
(* The incident report scripts: record validation, timestamp parsing and  *)
(* the validation summary of src/Incidencias.py, and main with --push of   *)
(* src/incidencias.py.                                                     *)
(*                                                                         *)
(* A Python str is modelled as a sequence of one-character strings, so     *)
(* "a@b.c" is <<"a","@","b",".","c">>; a letter outside ASCII is written   *)
(* by its name ("a_acute" for á, "n_tilde" for ñ).  A float that the code  *)
(* obtains as a quotient of two small integers is kept as the pair         *)
(* <<num, den>> and is compared with the decimal literals of the code by   *)
(* cross-multiplication; for the sizes that occur the IEEE quotient        *)
(* compares with 0.15 and 0.4 exactly as the rational does (3/20 and 2/5   *)
(* round to the literals).                                                 *)
(***************************************************************************)
EXTENDS Integers, Sequences, FiniteSets, TLC

VARIABLES pc, record, verdict, text, out,
          feed, incidencias, summary,
          args, json_written, git_cmds, exit_status

\* the state of process: the Incidencia elements still to read, the records
\* built so far, the validation summary
procvars == <<feed, incidencias, summary>>

\* the state of main in src/incidencias.py
pushvars == <<args, json_written, git_cmds, exit_status>>

vars == <<pc, record, verdict, text, out, procvars, pushvars>>

(***************************************************************************)
(* Characters                                                              *)
(***************************************************************************)
LowerLetters == <<"a","b","c","d","e","f","g","h","i","j","k","l","m",
                  "n","o","p","q","r","s","t","u","v","w","x","y","z">>
UpperLetters == <<"A","B","C","D","E","F","G","H","I","J","K","L","M",
                  "N","O","P","Q","R","S","T","U","V","W","X","Y","Z">>

Range(f) == {f[i] : i \in DOMAIN f}

UpperSet == Range(UpperLetters)

\* the class [A-Za-z] of the regular expression in vowel_ratio
AsciiLetters == Range(LowerLetters) \cup UpperSet

\* the class of the regular expression in is_gibberish
ConsonantLetters == AsciiLetters \ {"a","e","i","o","u","A","E","I","O","U"}

\* the characters of the literal "aeiouáéíóúàèìòù" in vowel_ratio
VowelChars ==
  {"a", "e", "i", "o", "u",
   "a_acute", "e_acute", "i_acute", "o_acute", "u_acute",
   "a_grave", "e_grave", "i_grave", "o_grave", "u_grave"}

\* letters outside ASCII that the inputs use; str.isalnum() and str.isalpha()
\* hold of them, [A-Za-z] does not match them
AccentedLower ==
  <<"a_acute", "e_acute", "i_acute", "o_acute", "u_acute",
    "a_grave", "e_grave", "i_grave", "o_grave", "u_grave", "n_tilde", "c_cedilla">>
AccentedUpper ==
  <<"A_acute", "E_acute", "I_acute", "O_acute", "U_acute",
    "A_grave", "E_grave", "I_grave", "O_grave", "U_grave", "N_tilde", "C_cedilla">>
AccentedUpperSet == Range(AccentedUpper)
OtherLetters == Range(AccentedLower) \cup AccentedUpperSet

Digits == {"0","1","2","3","4","5","6","7","8","9"}

\* characters that str.strip() removes and that \s matches
Whitespace == {" ", "\t", "\n"}

\* str.isalpha()
AlphaChars == AsciiLetters \cup OtherLetters
isalpha(c) == c \in AlphaChars

\* str.isalnum()
isalnum(c) == isalpha(c) \/ c \in Digits

\* str.lower() of one character
lower(c) ==
  IF c \in UpperSet
  THEN LowerLetters[CHOOSE i \in DOMAIN UpperLetters : UpperLetters[i] = c]
  ELSE IF c \in AccentedUpperSet
  THEN AccentedLower[CHOOSE i \in DOMAIN AccentedUpper : AccentedUpper[i] = c]
  ELSE c

(***************************************************************************)
(* String helpers                                                          *)
(***************************************************************************)
\* str.lstrip() and str.rstrip()
RECURSIVE lstrip(_)
lstrip(str) ==
  IF str # <<>> /\ Head(str) \in Whitespace THEN lstrip(Tail(str)) ELSE str

RECURSIVE rstrip(_)
rstrip(str) ==
  IF str # <<>> /\ str[Len(str)] \in Whitespace
  THEN rstrip(SubSeq(str, 1, Len(str) - 1)) ELSE str

\* str.strip(): drop the leading and the trailing whitespace
strip(str) == rstrip(lstrip(str))

\* the class [^@\s]
NotAtNorSpace(c) == c # "@" /\ c \notin Whitespace

\* re.search(r"[^@\s]+@[^@\s]+\.[^@\s]+", str): some "@" at p preceded by a
\* character of the class, a "." at q >= p + 2 with only characters of the
\* class between them (the second run may itself hold dots), and a character of
\* the class after the dot; the runs extend no further than that, since one
\* character of a run is enough for "+"
EmailPattern(str) ==
  \E p \in DOMAIN str :
     /\ str[p] = "@"
     /\ p >= 2 /\ NotAtNorSpace(str[p - 1])
     /\ \E q \in (p + 2)..(Len(str) - 1) :
          /\ str[q] = "."
          /\ \A i \in (p + 1)..(q - 1) : NotAtNorSpace(str[i])
          /\ NotAtNorSpace(str[q + 1])

looks_like_email(str) ==
  IF str = <<>> THEN FALSE
  ELSE EmailPattern(strip(str))

\* re.findall(r"[A-Za-z]", str)
findall_letters(str) == SelectSeq(str, LAMBDA c : c \in AsciiLetters)

\* vowel_ratio giving 1.0 instead of 0.0 when there is no letter
vowel_ratio_one_without_letters(str) ==
  IF str = <<>> THEN <<0, 1>>
  ELSE LET letters == SelectSeq(str, LAMBDA c : c \in AsciiLetters)
       IN  IF letters = <<>> THEN <<1, 1>>
           ELSE <<Cardinality({i \in DOMAIN letters : lower(letters[i]) \in VowelChars}),
                  Len(letters)>>

\* vowel_ratio as the pair <<numerator, denominator>>; 0.0 is <<0, 1>>
vowel_ratio(str) ==
  IF str = <<>> THEN <<0, 1>>
  ELSE LET letters == findall_letters(str)
       IN  IF letters = <<>> THEN <<0, 1>>
           ELSE <<Cardinality({i \in DOMAIN letters : lower(letters[i]) \in VowelChars}),
                  Len(letters)>>

MinRatioLen == 6
ShortRunLen == 4

\* max(1, n)
Max1(n) == IF n >= 1 THEN n ELSE 1

\* re.fullmatch(r"[bcdfghjklmnpqrstvwxyzBCDFGHJKLMNPQRSTVWXYZ]{4,}", str)
ConsonantRun(str) ==
  Len(str) >= ShortRunLen /\ \A i \in DOMAIN str : str[i] \in ConsonantLetters

\* is_gibberish with the consonant test inside the length test
is_gibberish_long_only(str) ==
  IF str = <<>> THEN FALSE
  ELSE LET t  == strip(str)
           vr == vowel_ratio(t)
           non_alnum == Cardinality({i \in DOMAIN t : ~isalnum(t[i])})
       IN  IF Len(t) >= MinRatioLen
           THEN \/ vr[1] * 100 < 15 * vr[2]
                \/ non_alnum * 10 > 4 * Max1(Len(t))
                \/ ConsonantRun(t)
           ELSE FALSE

is_gibberish(str) ==
  IF str = <<>> THEN FALSE
  ELSE LET t  == strip(str)
           vr == vowel_ratio(t)
           non_alnum == Cardinality({i \in DOMAIN t : ~isalnum(t[i])})
       IN  IF /\ Len(t) >= MinRatioLen
              /\ \/ vr[1] * 100 < 15 * vr[2]                  \* vr < 0.15
                 \/ non_alnum * 10 > 4 * Max1(Len(t))         \* > 0.4
           THEN TRUE
           ELSE ConsonantRun(t)

(***************************************************************************)
(* validate_record                                                         *)
(*                                                                         *)
(* A record is [informant, ubicacio, desc, email, tipus_equip, ts_parsed]; *)
(* ts_parsed is None or a datetime.  A reason is the tuple of the pieces   *)
(* its string is formatted from: <<"sin informant">>,                      *)
(* <<"desc", " gibberish">>,                                               *)
(* <<"valor repetido en campos (", sample, ") x", cnt>>.                   *)
(***************************************************************************)
None == [kind |-> "None"]

\* the keys of fields_to_check, in the dict's insertion order
FieldOrder == <<"informant", "ubicacio", "desc">>

\* the presence checks with the timestamp test inverted
presence_reasons_ts_inverted(r) ==
     (IF ~(r.informant # <<>> /\ strip(r.informant) # <<>>)
      THEN << <<"sin informant">> >> ELSE <<>>)
  \o (IF ~(r.ubicacio # <<>> /\ strip(r.ubicacio) # <<>>)
      THEN << <<"sin ubicació">> >> ELSE <<>>)
  \o (IF ~(r.desc # <<>> /\ strip(r.desc) # <<>>)
      THEN << <<"sin descripció">> >> ELSE <<>>)
  \o (IF r.ts_parsed # None
      THEN << <<"timestamp no parseado">> >> ELSE <<>>)

\* the presence checks with the "not" of the informant test dropped
presence_reasons_informant_inverted(r) ==
     (IF r.informant # <<>> /\ strip(r.informant) # <<>>
      THEN << <<"sin informant">> >> ELSE <<>>)
  \o (IF ~(r.ubicacio # <<>> /\ strip(r.ubicacio) # <<>>)
      THEN << <<"sin ubicació">> >> ELSE <<>>)
  \o (IF ~(r.desc # <<>> /\ strip(r.desc) # <<>>)
      THEN << <<"sin descripció">> >> ELSE <<>>)
  \o (IF r.ts_parsed = None
      THEN << <<"timestamp no parseado">> >> ELSE <<>>)

\* basic presence checks
presence_reasons(r) ==
     (IF ~(r.informant # <<>> /\ strip(r.informant) # <<>>)
      THEN << <<"sin informant">> >> ELSE <<>>)
  \o (IF ~(r.ubicacio # <<>> /\ strip(r.ubicacio) # <<>>)
      THEN << <<"sin ubicació">> >> ELSE <<>>)
  \o (IF ~(r.desc # <<>> /\ strip(r.desc) # <<>>)
      THEN << <<"sin descripció">> >> ELSE <<>>)
  \o (IF r.ts_parsed = None
      THEN << <<"timestamp no parseado">> >> ELSE <<>>)

fields_to_check(r) ==
  [informant |-> strip(r.informant),
   ubicacio  |-> strip(r.ubicacio),
   desc      |-> strip(r.desc)]

\* the email loop over informant and ubicacio only
email_reasons_without_desc(r) ==
  LET f == fields_to_check(r)
      one(fname) == IF f[fname] # <<>> /\ looks_like_email(f[fname])
                    THEN << <<fname, " parece un email">> >> ELSE <<>>
  IN  one(FieldOrder[1]) \o one(FieldOrder[2])

\* for fname, val in fields_to_check.items(): if val and looks_like_email(val)
email_reasons(r) ==
  LET f == fields_to_check(r)
      one(fname) == IF f[fname] # <<>> /\ looks_like_email(f[fname])
                    THEN << <<fname, " parece un email">> >> ELSE <<>>
  IN  one(FieldOrder[1]) \o one(FieldOrder[2]) \o one(FieldOrder[3])

\* for fname, val in fields_to_check.items(): if val and is_gibberish(val)
gibberish_reasons(r) ==
  LET f == fields_to_check(r)
      one(fname) == IF f[fname] # <<>> /\ is_gibberish(f[fname])
                    THEN << <<fname, " gibberish">> >> ELSE <<>>
  IN  one(FieldOrder[1]) \o one(FieldOrder[2]) \o one(FieldOrder[3])

\* the list all_vals: the non-empty ones of the stripped email, the three
\* stripped fields and the equipment type as given
all_vals(r) ==
  LET f == fields_to_check(r)
  IN  SelectSeq(<<strip(r.email), f.informant, f.ubicacio, f.desc, r.tipus_equip>>,
                LAMBDA v : v # <<>>)

\* Counter(vals)[v]
Occurrences(vals, v) == Cardinality({i \in DOMAIN vals : vals[i] = v})

RepeatMin == 3
SampleMax == 40
SampleKeep == 37

\* the sample cut at 40 characters instead of 37
sample_of_cut_at_max(val) ==
  IF Len(val) <= SampleMax THEN val
  ELSE SubSeq(val, 1, SampleMax) \o <<".", ".", ".">>

\* val if len(val) <= 40 else val[:37] + "..."
sample_of(val) ==
  IF Len(val) <= SampleMax THEN val
  ELSE SubSeq(val, 1, SampleKeep) \o <<".", ".", ".">>

\* the loop over counts.items() (first-insertion order) with its break
repeated_reasons(r) ==
  LET vals == all_vals(r)
      hits == {i \in DOMAIN vals : Occurrences(vals, vals[i]) >= RepeatMin}
  IN  IF hits = {} THEN <<>>
      ELSE LET first == CHOOSE i \in hits : \A j \in hits : i <= j
               val   == vals[first]
           IN  << <<"valor repetido en campos (", sample_of(val), ") x",
                    Occurrences(vals, val)>> >>

EmailRepeatMin == 3

\* the email rule with ">" for ">="
email_repeated_reasons_strict(r) ==
  LET email_val == strip(r.email)
  IN  IF email_val # <<>> /\ Occurrences(all_vals(r), email_val) > EmailRepeatMin
      THEN << <<"email repetido en varios campos">> >> ELSE <<>>

email_repeated_reasons(r) ==
  LET email_val == strip(r.email)
  IN  IF email_val # <<>> /\ Occurrences(all_vals(r), email_val) >= EmailRepeatMin
      THEN << <<"email repetido en varios campos">> >> ELSE <<>>

ShortDescLen == 10

\* the short-description rule with "<=" for "<"
short_desc_reasons_inclusive(r) ==
  LET desc == strip(r.desc)
  IN  IF desc # <<>> /\ Len(desc) <= ShortDescLen /\ is_gibberish(desc)
      THEN << <<"descripción demasiado corta y no significativa">> >> ELSE <<>>

short_desc_reasons(r) ==
  LET desc == strip(r.desc)
  IN  IF desc # <<>> /\ Len(desc) < ShortDescLen /\ is_gibberish(desc)
      THEN << <<"descripción demasiado corta y no significativa">> >> ELSE <<>>

\* the rule battery with the gibberish loop ahead of the email loop
collect_reasons_gibberish_first(r) ==
     presence_reasons(r) \o gibberish_reasons(r) \o email_reasons(r)
  \o repeated_reasons(r) \o email_repeated_reasons(r) \o short_desc_reasons(r)

\* the reasons list as the body of validate_record builds it
collect_reasons(r) ==
     presence_reasons(r) \o email_reasons(r) \o gibberish_reasons(r)
  \o repeated_reasons(r) \o email_repeated_reasons(r) \o short_desc_reasons(r)

\* validate_record with the flag taken from the presence checks alone
validate_record_presence_only(r) ==
  [is_valid |-> Len(presence_reasons(r)) = 0, reasons |-> collect_reasons(r)]

validate_record(r) ==
  LET reasons == collect_reasons(r)
  IN  [is_valid |-> Len(reasons) = 0, reasons |-> reasons]

(***************************************************************************)
(* try_parse_timestamp                                                     *)
(*                                                                         *)
(* A format is the sequence of its directives and literals; the blank of a *)
(* format stands for one or more whitespace characters of the data, as in  *)
(* datetime.strptime.  A datetime is the record of its six fields.         *)
(***************************************************************************)
DigitOrder == <<"0","1","2","3","4","5","6","7","8","9">>

DigitValue(c) == (CHOOSE i \in DOMAIN DigitOrder : DigitOrder[i] = c) - 1

\* int() of a string of digits
RECURSIVE int(_)
int(str) ==
  IF str = <<>> THEN 0
  ELSE 10 * int(SubSeq(str, 1, Len(str) - 1)) + DigitValue(str[Len(str)])

RECURSIVE DigitPrefixLen(_)
DigitPrefixLen(str) ==
  IF str = <<>> \/ Head(str) \notin Digits THEN 0
  ELSE 1 + DigitPrefixLen(Tail(str))

Directives == {"%d", "%m", "%Y", "%H", "%M", "%S"}

\* the digits a directive accepts
DirectiveOk(dir, digits) ==
  CASE dir = "%d" -> Len(digits) \in 1..2 /\ int(digits) \in 1..31
    [] dir = "%m" -> Len(digits) \in 1..2 /\ int(digits) \in 1..12
    [] dir = "%Y" -> Len(digits) = 4
    [] dir = "%H" -> Len(digits) \in 1..2 /\ int(digits) \in 0..23
    [] dir = "%M" -> Len(digits) \in 1..2 /\ int(digits) \in 0..59
    [] dir = "%S" -> Len(digits) \in 1..2 /\ int(digits) \in 0..61

NoMatch == [ok |-> FALSE, fields |-> <<>>]

\* the numbers of the directives of fmt when the whole of str matches fmt
RECURSIVE match_format(_, _)
match_format(str, fmt) ==
  IF fmt = <<>> THEN [ok |-> str = <<>>, fields |-> <<>>]
  ELSE IF Head(fmt) \in Directives
  THEN LET n      == DigitPrefixLen(str)
           digits == SubSeq(str, 1, n)
           rest   == match_format(SubSeq(str, n + 1, Len(str)), Tail(fmt))
       IN  IF DirectiveOk(Head(fmt), digits) /\ rest.ok
           THEN [ok |-> TRUE, fields |-> <<int(digits)>> \o rest.fields]
           ELSE NoMatch
  ELSE IF Head(fmt) = " "
  THEN IF str # <<>> /\ Head(str) \in Whitespace
       THEN match_format(lstrip(str), Tail(fmt))
       ELSE NoMatch
  ELSE IF str # <<>> /\ Head(str) = Head(fmt)
       THEN match_format(Tail(str), Tail(fmt))
       ELSE NoMatch

IsLeap(year) == year % 4 = 0 /\ (year % 100 # 0 \/ year % 400 = 0)

DaysInMonth(year, month) ==
  IF month = 2 THEN (IF IsLeap(year) THEN 29 ELSE 28)
  ELSE IF month \in {4, 6, 9, 11} THEN 30 ELSE 31

ValueError == [kind |-> "ValueError"]

\* datetime.strptime(str, fmt): the datetime, or the exception it raises
strptime(str, fmt) ==
  LET mt     == match_format(str, fmt)
      f      == mt.fields
      hour   == IF Len(f) >= 4 THEN f[4] ELSE 0
      minute == IF Len(f) >= 5 THEN f[5] ELSE 0
      second == IF Len(f) >= 6 THEN f[6] ELSE 0
  IN  IF ~mt.ok THEN ValueError
      ELSE IF f[3] < 1 \/ f[1] > DaysInMonth(f[3], f[2]) \/ second > 59
      THEN ValueError
      ELSE [kind |-> "datetime", day |-> f[1], month |-> f[2], year |-> f[3],
            hour |-> hour, minute |-> minute, second |-> second]

FmtSeconds == <<"%d", "/", "%m", "/", "%Y", " ", "%H", ":", "%M", ":", "%S">>
FmtMinutes == <<"%d", "/", "%m", "/", "%Y", " ", "%H", ":", "%M">>
FmtDate    == <<"%d", "/", "%m", "/", "%Y">>

\* the tuple of formats of the inner loop, as written
Formats == <<FmtSeconds, FmtMinutes, FmtSeconds, FmtDate, FmtSeconds>>

\* for fmt in (...): try: return datetime.strptime(s, fmt); except: continue
RECURSIVE try_formats(_, _)
try_formats(str, fmts) ==
  IF fmts = <<>> THEN None
  ELSE LET d == strptime(str, Head(fmts))
       IN  IF d # ValueError THEN d ELSE try_formats(str, Tail(fmts))

candidates(ts_text, date_text, time_text) ==
     (IF ts_text # <<>> THEN <<ts_text>> ELSE <<>>)
  \o (IF date_text # <<>>
      THEN <<date_text \o (IF time_text # <<>> THEN <<" ">> \o time_text
                                               ELSE <<>>)>>
      ELSE <<>>)

\* for s in candidates: s = s.strip(); if not s: continue; ...
RECURSIVE try_candidates(_)
try_candidates(cands) ==
  IF cands = <<>> THEN None
  ELSE LET str == strip(Head(cands))
           d   == IF str = <<>> THEN None ELSE try_formats(str, Formats)
       IN  IF d # None THEN d ELSE try_candidates(Tail(cands))

\* the date and time candidate tried before the raw timestamp
try_parse_timestamp_date_first(ts_text, date_text, time_text) ==
  LET c == candidates(ts_text, date_text, time_text)
  IN  try_candidates([i \in DOMAIN c |-> c[Len(c) + 1 - i]])

try_parse_timestamp(ts_text, date_text, time_text) ==
  try_candidates(candidates(ts_text, date_text, time_text))

(***************************************************************************)
(* process                                                                 *)
(*                                                                         *)
(* An Incidencia element is the record of the texts of its children; a     *)
(* child that is missing or has no text is the empty string, which is what *)
(* get_text makes of it.  Of the twelve keys of a record the model keeps   *)
(* the eight that the timestamp parsing and the validation read.  A        *)
(* Counter is the sequence of its <<key, count>> items in insertion order. *)
(***************************************************************************)
get_text(elem_text) == IF elem_text = <<>> THEN <<>> ELSE strip(elem_text)

\* one pass of the loop over root.findall("Incidencia")
build_record(inc) ==
  LET ts_raw == get_text(inc.timestamp_raw)
      date   == get_text(inc.date)
      time   == get_text(inc.time)
      rec    == [email       |-> get_text(inc.email),
                 informant   |-> get_text(inc.informant),
                 ubicacio    |-> get_text(inc.ubicacio),
                 tipus_equip |-> get_text(inc.tipus_equip),
                 desc        |-> get_text(inc.desc),
                 ts_parsed   |-> try_parse_timestamp(ts_raw, date, time)]
      v      == validate_record(rec)
  IN  [timestamp_raw |-> ts_raw, date |-> date, time |-> time,
       email |-> rec.email, informant |-> rec.informant,
       ubicacio |-> rec.ubicacio, tipus_equip |-> rec.tipus_equip,
       desc |-> rec.desc, ts_parsed |-> rec.ts_parsed,
       is_valid |-> v.is_valid, invalid_reasons |-> v.reasons]

\* reason for r in incidencias for reason in r.get("invalid_reasons", [])
RECURSIVE all_reasons(_)
all_reasons(incs) ==
  IF incs = <<>> THEN <<>>
  ELSE Head(incs).invalid_reasons \o all_reasons(Tail(incs))

counter_add(counter, key) ==
  IF \E i \in DOMAIN counter : counter[i][1] = key
  THEN [i \in DOMAIN counter |->
          IF counter[i][1] = key THEN <<key, counter[i][2] + 1>>
          ELSE counter[i]]
  ELSE Append(counter, <<key, 1>>)

\* Counter(iterable)
RECURSIVE Counter(_)
Counter(items) ==
  IF items = <<>> THEN <<>>
  ELSE counter_add(Counter(SubSeq(items, 1, Len(items) - 1)),
                   items[Len(items)])

\* an item placed before the items that have the same count
insert_before_equal(sorted, item) ==
  LET k == Cardinality({i \in DOMAIN sorted : sorted[i][2] > item[2]})
  IN  SubSeq(sorted, 1, k) \o <<item>> \o SubSeq(sorted, k + 1, Len(sorted))

\* an item placed into a list sorted by descending count, behind the items
\* that have the same count (the sort is stable)
insert_sorted(sorted, item) ==
  LET k == Cardinality({i \in DOMAIN sorted : sorted[i][2] >= item[2]})
  IN  SubSeq(sorted, 1, k) \o <<item>> \o SubSeq(sorted, k + 1, Len(sorted))

\* Counter.most_common(): sorted(items, key=count, reverse=True)
RECURSIVE most_common(_)
most_common(counter) ==
  IF counter = <<>> THEN <<>>
  ELSE insert_sorted(most_common(SubSeq(counter, 1, Len(counter) - 1)),
                     counter[Len(counter)])

\* Counter.most_common(n)
most_common_n(counter, n) ==
  LET ranking == most_common(counter)
  IN  SubSeq(ranking, 1, IF n < Len(ranking) THEN n ELSE Len(ranking))

\* the number of reasons the console shows
TopReasons == 5

\* the validation summary of process
validation_summary(incs) ==
  LET total           == Len(incs)
      valid_count     == Cardinality({i \in DOMAIN incs : incs[i].is_valid})
      invalid_reasons == Counter(all_reasons(incs))
  IN  [total           |-> total,
       valid_count     |-> valid_count,
       invalid_count   |-> total - valid_count,
       invalid_reasons |-> invalid_reasons,
       shown           |-> most_common_n(invalid_reasons, TopReasons)]

\* the "validation" object of the JSON export
validation_json(s) ==
  [valid           |-> s.valid_count,
   invalid         |-> s.invalid_count,
   invalid_reasons |-> most_common(s.invalid_reasons)]

(***************************************************************************)
(* src/incidencias.py: process without validation, git_push, main          *)
(*                                                                         *)
(* A path or a message is a record, so that it can be told from None.  The *)
(* environment of git_push says whether the file exists, whether it lies   *)
(* in a git repository, and how git add, git commit and git push end.      *)
(***************************************************************************)
PathOf(name) == [kind |-> "path", name |-> name]

\* one pass of the loop of process in src/incidencias.py
parsed_record(inc) ==
  LET ts_raw == get_text(inc.timestamp_raw)
      date   == get_text(inc.date)
      time   == get_text(inc.time)
  IN  [timestamp_raw |-> ts_raw, date |-> date, time |-> time,
       email |-> get_text(inc.email), informant |-> get_text(inc.informant),
       ubicacio |-> get_text(inc.ubicacio),
       tipus_equip |-> get_text(inc.tipus_equip), desc |-> get_text(inc.desc),
       ts_parsed |-> try_parse_timestamp(ts_raw, date, time)]

\* json_out of main: --json when given, else the XML path with suffix .json,
\* else None when that raises (a path without a name)
json_out_of(a) ==
  IF a.json_out # None THEN a.json_out
  ELSE IF a.file # "" THEN PathOf("Incidencies.json") ELSE None

GitEnvs ==
  [exists : BOOLEAN, in_repo : BOOLEAN, add_ok : BOOLEAN,
   commit : {"committed", "nothing to commit", "failed"}, push_ok : BOOLEAN]

\* git_push: the git commands it runs, in order, and the value it returns
git_push(json_path, remote, branch, commit_msg, env) ==
  LET msg      == IF commit_msg = None
                  THEN [kind |-> "str",
                        val  |-> <<"Add/update incidencias JSON: ",
                                   json_path.name>>]
                  ELSE commit_msg
      revparse == <<"git", "rev-parse", "--show-toplevel">>
      add      == <<"git", "add", json_path>>
      commit   == <<"git", "commit", "-m", msg>>
      push     == <<"git", "push", remote, branch>>
  IN  IF ~env.exists THEN [cmds |-> <<>>, result |-> FALSE]
      ELSE IF ~env.in_repo THEN [cmds |-> <<revparse>>, result |-> FALSE]
      ELSE IF ~env.add_ok THEN [cmds |-> <<revparse, add>>, result |-> FALSE]
      ELSE IF env.commit = "failed"
      THEN [cmds |-> <<revparse, add, commit>>, result |-> FALSE]
      ELSE [cmds |-> <<revparse, add, commit, push>>, result |-> env.push_ok]

\* sys.exit(code), or main returning (code 0)
Exit(code) == [kind |-> "SystemExit", code |-> code]

(***************************************************************************)
(* Inputs                                                                  *)
(***************************************************************************)
MaxOver == 1
MaxLen == 5
MaxRun == 8

Rep(c, n) == [i \in 1..n |-> c]

\* "lalala..." of length n: letters only, half of them vowels
Lala(n) == [i \in 1..n |-> IF i % 2 = 1 THEN "l" ELSE "a"]

Empty       == <<>>
Blank       == <<" ">>
FooBar      == <<"f","o","o","@","b","a","r",".","c","o","m">>
FooBarPad   == <<" ">> \o FooBar
EmailInside == <<"d","e"," ","a","@","b",".","c"," ">>
AtTail      == <<"a","@","b",".","@">>
Mash        == <<"x","k","c","d">>
Mash10      == Rep("x", ShortDescLen)
Hola        == <<"h","o","l","a">>
HolaPad     == <<" ">> \o Hola

\* long values around the length at which the repeated value is cut
LongVals == {Lala(n) : n \in SampleMax..(SampleMax + MaxOver)}

InformantVals == {Empty, Blank, FooBar, AtTail, Hola, HolaPad} \cup LongVals

UbicacioVals == {Empty, FooBar, EmailInside, Hola, Mash} \cup LongVals

DescVals == {Empty, Blank, FooBar, Mash, Mash10, Hola} \cup LongVals

EmailVals == {Empty, FooBar, FooBarPad}

TypeVals == {Empty, Blank, FooBar, HolaPad}

\* a datetime as try_parse_timestamp returns it
SomeDatetime == [kind |-> "datetime", day |-> 15, month |-> 3, year |-> 2024,
                 hour |-> 14, minute |-> 30, second |-> 0]

Records ==
  [informant : InformantVals, ubicacio : UbicacioVals, desc : DescVals,
   email : EmailVals, tipus_equip : TypeVals, ts_parsed : {None, SomeDatetime}]

EmptyRecord ==
  [informant |-> Empty, ubicacio |-> Empty, desc |-> Empty,
   email |-> Empty, tipus_equip |-> Empty, ts_parsed |-> None]

\* all strings over chars of length at most n
RECURSIVE StringsUpTo(_, _)
StringsUpTo(chars, n) ==
  IF n = 0 THEN {<<>>}
  ELSE LET shorter == StringsUpTo(chars, n - 1)
       IN  shorter \cup {Append(w, c) : w \in shorter, c \in chars}

ShortAlphabet == {"a", "x", "1", "@", ".", " "}
RunAlphabet   == {"a", "E", "x", "B", "a_acute", "n_tilde", "1", "-", " "}

\* the strings the helpers are applied to: every short string, every string of
\* two runs, and the examples "xyz", "xyzxyz", "bcdfg"
Texts ==
  StringsUpTo(ShortAlphabet, MaxLen)
    \cup {Rep(c, m) \o Rep(d, n) : c \in RunAlphabet, d \in RunAlphabet,
                                   m \in 0..MaxRun, n \in 0..MaxRun}
    \cup {<<"x","y","z">>, <<"x","y","z","x","y","z">>, <<"b","c","d","f","g">>}

\* dates and times as the XML holds them
DateOf(d, mo, y) == d \o <<"/">> \o mo \o <<"/">> \o y

Date15  == DateOf(<<"1","5">>, <<"0","3">>, <<"2","0","2","4">>)
Date16  == DateOf(<<"1","6">>, <<"0","4">>, <<"2","0","2","5">>)
Feb31   == DateOf(<<"3","1">>, <<"0","2">>, <<"2","0","2","4">>)
IsoDate == <<"2","0","2","4","-","0","3","-","1","5">>

TimeSamples ==
  {<<"1","4",":","3","0",":","0","0">>, <<"1","4",":","3","0">>,
   <<"9",":","5">>, <<"2","4",":","0","0">>,
   <<"1","4",":","3","0",":","6","0">>, <<"1","4",":","6","0">>,
   <<"1","4",":","3","0","0">>}

TsDates ==
  {DateOf(d, mo, y) : d  \in {<<"1","5">>, <<"2","9">>, <<"3","1">>, <<"0">>},
                      mo \in {<<"0","3">>, <<"2">>, <<"1","3">>},
                      y  \in {<<"2","0","2","4">>, <<"2","0","2","5">>}}
    \cup {DateOf(<<"1","5">>, <<"0","3">>, y) :
            y \in {<<"0","0","0","0">>, <<"2","0","2","4","1">>, <<"2","4">>}}

TsTexts ==
  {Empty, Blank, IsoDate, <<" ">> \o Date15 \o <<" ">>}
    \cup TsDates
    \cup {Date15 \o sep \o t : sep \in {<<" ">>, <<" ", "\t">>, <<"T">>},
                               t \in TimeSamples}

DateTexts == {Empty, Blank, Date16, Feb31, IsoDate, Date16 \o <<" ">>}

TimeTexts ==
  {Empty, Blank, <<"1","4",":","3","0",":","0","0">>, <<"9",":","5">>,
   <<"2","4",":","0","0">>, <<"1","4",":","3","0",":","6","0">>}

\* the three timestamp fields of a record, as process reads them
RawRecords == [timestamp_raw : TsTexts, date : DateTexts, time : TimeTexts]

Date15At143000 == Date15 \o <<" ", "1","4",":","3","0",":","0","0">>

\* the longest feed process is run on
MaxRecords == 3

Aula == <<"a","u","l","a"," ","1","2">>
PC   == <<"P","C">>

\* an Incidencia element that passes every rule
IncGood ==
  [timestamp_raw |-> Date15At143000, date |-> Empty, time |-> Empty,
   email |-> FooBar, informant |-> HolaPad, ubicacio |-> Aula,
   tipus_equip |-> PC, desc |-> Lala(12)]

IncEmpty ==
  [timestamp_raw |-> Empty, date |-> Empty, time |-> Empty,
   email |-> Empty, informant |-> Empty, ubicacio |-> Empty,
   tipus_equip |-> Empty, desc |-> Empty]

XmlIncidents ==
  {IncGood, IncEmpty,
   [IncGood EXCEPT !.timestamp_raw = Empty, !.date = Date16,
                   !.time = <<"9", ":", "5">>],
   [IncGood EXCEPT !.timestamp_raw = IsoDate],
   [IncGood EXCEPT !.informant = Blank],
   [IncGood EXCEPT !.desc = Mash],
   [IncGood EXCEPT !.timestamp_raw = IsoDate, !.informant = FooBar,
                   !.ubicacio = FooBar, !.desc = FooBarPad]}

RECURSIVE FeedsUpTo(_)
FeedsUpTo(n) ==
  IF n = 0 THEN {<<>>}
  ELSE LET shorter == FeedsUpTo(n - 1)
       IN  shorter \cup {Append(f, inc) : f \in shorter, inc \in XmlIncidents}

Feeds == FeedsUpTo(MaxRecords)

\* the command lines of src/incidencias.py
PushArgs ==
  [push : BOOLEAN, file : {"", "Incidencies.xml"},
   json_out : {None, PathOf("out.json")},
   git_remote : {"origin", "upstream"}, git_branch : {"main"},
   commit_msg : {None, [kind |-> "str", val |-> <<"update">>]}]

\* the feeds of src/incidencias.py, which validates nothing
RECURSIVE PlainFeedsUpTo(_)
PlainFeedsUpTo(n) ==
  IF n = 0 THEN {<<>>}
  ELSE LET shorter == PlainFeedsUpTo(n - 1)
       IN  shorter \cup {Append(f, inc) : f \in shorter,
                                          inc \in {IncGood, IncEmpty}}

PlainFeeds == PlainFeedsUpTo(MaxRecords)

(***************************************************************************)
(* Specifications                                                          *)
(***************************************************************************)
NoOut == [fn |-> "none"]

\* process is not running
ProcessIdle == feed = <<>> /\ incidencias = <<>> /\ summary = None

NoArgs == [kind |-> "None"]

\* main of src/incidencias.py is not running
PushIdle ==
  /\ args = NoArgs /\ json_written = None
  /\ git_cmds = <<>> /\ exit_status = None

\* validate_record applied to one record
Init ==
  /\ pc = "call"
  /\ record \in Records
  /\ verdict = None
  /\ text = Empty
  /\ out = NoOut
  /\ ProcessIdle
  /\ PushIdle

Validate ==
  /\ pc = "call"
  /\ verdict' = validate_record(record)
  /\ pc' = "validated"
  /\ UNCHANGED <<record, text, out, procvars, pushvars>>

Next == Validate

Spec == Init /\ [][Next]_vars

\* the string helpers applied to one string
InitStr ==
  /\ pc = "call"
  /\ text \in Texts
  /\ out = NoOut
  /\ record = EmptyRecord
  /\ verdict = None
  /\ ProcessIdle
  /\ PushIdle

CallVowelRatio ==
  /\ pc = "call"
  /\ out' = [fn |-> "vowel_ratio", val |-> vowel_ratio(text)]
  /\ pc' = "returned"
  /\ UNCHANGED <<record, verdict, text, procvars, pushvars>>

CallIsGibberish ==
  /\ pc = "call"
  /\ out' = [fn |-> "is_gibberish", val |-> is_gibberish(text)]
  /\ pc' = "returned"
  /\ UNCHANGED <<record, verdict, text, procvars, pushvars>>

CallLooksLikeEmail ==
  /\ pc = "call"
  /\ out' = [fn |-> "looks_like_email", val |-> looks_like_email(text)]
  /\ pc' = "returned"
  /\ UNCHANGED <<record, verdict, text, procvars, pushvars>>

NextStr == CallVowelRatio \/ CallIsGibberish \/ CallLooksLikeEmail

SpecStr == InitStr /\ [][NextStr]_vars

\* try_parse_timestamp applied to the timestamp fields of one record
InitTs ==
  /\ pc = "call"
  /\ record \in RawRecords
  /\ out = NoOut
  /\ text = Empty
  /\ verdict = None
  /\ ProcessIdle
  /\ PushIdle

CallTryParseTimestamp ==
  /\ pc = "call"
  /\ out' = [fn  |-> "try_parse_timestamp",
             val |-> try_parse_timestamp(record.timestamp_raw, record.date,
                                         record.time)]
  /\ pc' = "returned"
  /\ UNCHANGED <<record, verdict, text, procvars, pushvars>>

NextTs == CallTryParseTimestamp

SpecTs == InitTs /\ [][NextTs]_vars

\* process of src/Incidencias.py on the Incidencia elements of one XML file
InitProcess ==
  /\ pc = "loop"
  /\ feed \in Feeds
  /\ incidencias = <<>>
  /\ summary = None
  /\ record = EmptyRecord /\ verdict = None /\ text = Empty /\ out = NoOut
  /\ PushIdle

\* one pass of the loop: the record is built, parsed, validated and appended
ReadIncidencia ==
  /\ pc = "loop" /\ feed # <<>>
  /\ incidencias' = Append(incidencias, build_record(Head(feed)))
  /\ feed' = Tail(feed)
  /\ UNCHANGED <<pc, summary, record, verdict, text, out, pushvars>>

\* the loop is over: the counts are taken and the reasons are shown
Summarise ==
  /\ pc = "loop" /\ feed = <<>>
  /\ summary' = validation_summary(incidencias)
  /\ pc' = "summary"
  /\ UNCHANGED <<feed, incidencias, record, verdict, text, out, pushvars>>

\* the JSON export is written
ExportJson ==
  /\ pc = "summary"
  /\ out' = [fn |-> "json.dump", val |-> validation_json(summary)]
  /\ pc' = "done"
  /\ UNCHANGED <<procvars, record, verdict, text, pushvars>>

\* writing the JSON export raises, which process reports and survives
ExportFails ==
  /\ pc = "summary"
  /\ pc' = "done"
  /\ UNCHANGED <<procvars, record, verdict, text, out, pushvars>>

NextProcess == ReadIncidencia \/ Summarise \/ ExportJson \/ ExportFails

SpecProcess == InitProcess /\ [][NextProcess]_vars

\* main of src/incidencias.py on one command line and one XML file
InitPush ==
  /\ pc = "main"
  /\ args \in PushArgs
  /\ feed \in PlainFeeds
  /\ incidencias = <<>> /\ summary = None
  /\ json_written = None /\ git_cmds = <<>> /\ exit_status = None
  /\ record = EmptyRecord /\ verdict = None /\ text = Empty /\ out = NoOut

\* ET.parse raises (always so for a path without a name): sys.exit(1)
XmlParseFails ==
  /\ pc = "main"
  /\ exit_status' = Exit(1)
  /\ pc' = "exit"
  /\ UNCHANGED <<args, json_written, git_cmds, procvars,
                 record, verdict, text, out>>

XmlParsed ==
  /\ pc = "main" /\ args.file # ""
  /\ pc' = "loop"
  /\ UNCHANGED <<pushvars, procvars, record, verdict, text, out>>

\* one pass of the loop of process
ReadPlainIncidencia ==
  /\ pc = "loop" /\ feed # <<>>
  /\ incidencias' = Append(incidencias, parsed_record(Head(feed)))
  /\ feed' = Tail(feed)
  /\ UNCHANGED <<pc, summary, pushvars, record, verdict, text, out>>

\* the JSON file is written and process returns its path
WriteJson ==
  /\ pc = "loop" /\ feed = <<>> /\ json_out_of(args) # None
  /\ json_written' = json_out_of(args)
  /\ pc' = "processed"
  /\ UNCHANGED <<args, git_cmds, exit_status, procvars,
                 record, verdict, text, out>>

\* writing the JSON file raises and process returns None
WriteJsonFails ==
  /\ pc = "loop" /\ feed = <<>> /\ json_out_of(args) # None
  /\ json_written' = None
  /\ pc' = "processed"
  /\ UNCHANGED <<args, git_cmds, exit_status, procvars,
                 record, verdict, text, out>>

\* the rest of main: with --push and no JSON written sys.exit(1); otherwise
\* main returns
AfterProcess ==
  /\ pc = "processed"
  /\ exit_status' = IF args.push /\ json_written = None THEN Exit(1)
                    ELSE Exit(0)
  /\ pc' = "exit"
  /\ UNCHANGED <<args, json_written, git_cmds, procvars,
                 record, verdict, text, out>>

NextPush ==
  \/ XmlParseFails \/ XmlParsed \/ ReadPlainIncidencia
  \/ WriteJson \/ WriteJsonFails \/ AfterProcess

SpecPush == InitPush /\ [][NextPush]_vars

(***************************************************************************)
(* Properties of validate_record, under Spec                               *)
(***************************************************************************)
Validated == pc = "validated"

Has(reason) == \E i \in DOMAIN verdict.reasons : verdict.reasons[i] = reason

IsBlank(v) == strip(v) = <<>>

\* the five values of the repetition rules: email, informant, location and
\* description trimmed, the equipment type as the record holds it; the empty
\* ones are left out
FiveValues(r) ==
  SelectSeq(<<strip(r.email), strip(r.informant), strip(r.ubicacio),
              strip(r.desc), r.tipus_equip>>, LAMBDA v : v # <<>>)

\* the thirteen reasons of the six rules, in rule order
RuleRanks == 1..13

\* the condition under which the k-th reason of the rule battery is due
Trigger(r, k) ==
  CASE k = 1  -> IsBlank(r.informant)
    [] k = 2  -> IsBlank(r.ubicacio)
    [] k = 3  -> IsBlank(r.desc)
    [] k = 4  -> r.ts_parsed = None
    [] k = 5  -> looks_like_email(strip(r.informant))
    [] k = 6  -> looks_like_email(strip(r.ubicacio))
    [] k = 7  -> looks_like_email(strip(r.desc))
    [] k = 8  -> is_gibberish(strip(r.informant))
    [] k = 9  -> is_gibberish(strip(r.ubicacio))
    [] k = 10 -> is_gibberish(strip(r.desc))
    [] k = 11 -> \E i \in DOMAIN FiveValues(r) :
                    Occurrences(FiveValues(r), FiveValues(r)[i]) >= 3
    [] k = 12 -> /\ ~IsBlank(r.email)
                 /\ Occurrences(FiveValues(r), strip(r.email)) >= 3
    [] k = 13 -> /\ ~IsBlank(r.desc) /\ Len(strip(r.desc)) < 10
                 /\ is_gibberish(strip(r.desc))

FieldIndex(fname) == CHOOSE i \in DOMAIN FieldOrder : FieldOrder[i] = fname

\* the place of a reason in the fixed rule order
RankOf(reason) ==
  IF Len(reason) = 4 THEN 11
  ELSE IF Len(reason) = 2
  THEN (IF reason[2] = " parece un email" THEN 4 ELSE 7) + FieldIndex(reason[1])
  ELSE CASE reason[1] = "sin informant" -> 1
         [] reason[1] = "sin ubicació" -> 2
         [] reason[1] = "sin descripció" -> 3
         [] reason[1] = "timestamp no parseado" -> 4
         [] reason[1] = "email repetido en varios campos" -> 12
         [] reason[1] = "descripción demasiado corta y no significativa" -> 13

Ranks == {RankOf(verdict.reasons[i]) : i \in DOMAIN verdict.reasons}

\* C1: the verdict is valid exactly when its reasons list is empty, and that is
\* exactly when no rule of the battery is triggered by the record
C1_ValidIffNoReasons ==
  Validated =>
    /\ verdict.is_valid <=> (Len(verdict.reasons) = 0)
    /\ verdict.is_valid <=> (\A k \in RuleRanks : ~Trigger(record, k))

\* a valid verdict for a record with a padded and a whitespace-only field
C1_Witness ==
  /\ Validated /\ verdict.is_valid
  /\ record.informant = HolaPad /\ record.tipus_equip = Blank

\* C2: the reasons appear in the fixed rule order, and every rule is evaluated
\* whatever the earlier rules found: the reasons present are exactly those
\* whose own condition holds
C2_FixedRuleOrder ==
  Validated =>
    /\ \A i \in DOMAIN verdict.reasons : \A j \in DOMAIN verdict.reasons :
         i < j => RankOf(verdict.reasons[i]) < RankOf(verdict.reasons[j])
    /\ Ranks = {k \in RuleRanks : Trigger(record, k)}

\* one verdict that holds a reason of each of the six rules
C2_Witness ==
  /\ Validated
  /\ Ranks \cap (1..4) # {} /\ Ranks \cap (5..7) # {} /\ Ranks \cap (8..10) # {}
  /\ {11, 12, 13} \subseteq Ranks

\* C3: a record whose text fields are all empty (or whitespace) and that has no
\* parsed timestamp is invalid with exactly the four presence reasons
C3_AllEmpty ==
  (/\ Validated
   /\ IsBlank(record.informant) /\ IsBlank(record.ubicacio) /\ IsBlank(record.desc)
   /\ IsBlank(record.email) /\ IsBlank(record.tipus_equip)
   /\ record.ts_parsed = None)
  => /\ ~verdict.is_valid
     /\ verdict.reasons = << <<"sin informant">>, <<"sin ubicació">>,
                             <<"sin descripció">>, <<"timestamp no parseado">> >>

C3_Witness == Validated /\ record = EmptyRecord /\ Len(verdict.reasons) = 4

\* str holds a substring a..b made of a run of characters that are neither
\* whitespace nor "@", an "@" at p, another such run, a "." at q, and a run of
\* characters outside the set excluded
EmailShaped(str, excluded) ==
  \E p \in DOMAIN str :
    /\ str[p] = "@"
    /\ \E a \in 1..(p - 1) : \A i \in a..(p - 1) : NotAtNorSpace(str[i])
    /\ \E q \in (p + 2)..Len(str) :
         /\ str[q] = "."
         /\ \A i \in (p + 1)..(q - 1) : NotAtNorSpace(str[i])
         /\ \E b \in (q + 1)..Len(str) : \A i \in (q + 1)..b : str[i] \notin excluded

EmailReasonsAsShaped(excluded) ==
  \A i \in DOMAIN FieldOrder :
    Has(<<FieldOrder[i], " parece un email">>)
      <=> /\ ~IsBlank(record[FieldOrder[i]])
          /\ EmailShaped(strip(record[FieldOrder[i]]), excluded)

\* C7 as stated: each field has its email reason exactly when its trimmed value
\* is non-empty and holds run "@" run "." followed by a run of non-whitespace
\* characters
C7_LastRunNonWhitespace == Validated => EmailReasonsAsShaped(Whitespace)

\* C7 as amended: the run after the "." is, like the other two, made of
\* characters that are neither whitespace nor "@"; the reasons of the three
\* fields are independent, and informant "foo@bar.com" always has its reason
C7_EmailShape ==
  Validated =>
    /\ EmailReasonsAsShaped(Whitespace \cup {"@"})
    /\ strip(record.informant) = FooBar => Has(<<"informant", " parece un email">>)

\* informant "foo@bar.com" and an address inside the location both reported,
\* a description without one not reported
C7_Witness ==
  /\ Validated
  /\ record.informant = FooBar /\ record.ubicacio = EmailInside /\ record.desc = Hola
  /\ Has(<<"informant", " parece un email">>)
  /\ Has(<<"ubicacio", " parece un email">>)
  /\ ~Has(<<"desc", " parece un email">>)

RepeatedReasons == {i \in DOMAIN verdict.reasons : Len(verdict.reasons[i]) = 4}

\* the value as the reason displays it
Displayed(v) == IF Len(v) <= 40 THEN v ELSE SubSeq(v, 1, 37) \o <<".", ".", ".">>

\* C8: a "valor repetido en campos" reason is present exactly when some value
\* occurs 3 or more times among the five values; there is at most one; it
\* gives the number of occurrences of the value it reports, and displays the
\* value whole up to 40 characters and as 37 characters plus "..." beyond
C8_RepeatedValue ==
  Validated =>
    LET vals == FiveValues(record)
        rep  == {v \in Range(vals) : Occurrences(vals, v) >= 3}
    IN  /\ Cardinality(RepeatedReasons) <= 1
        /\ (RepeatedReasons # {}) <=> (rep # {})
        /\ \A i \in RepeatedReasons : \E v \in rep :
             verdict.reasons[i] =
               <<"valor repetido en campos (", Displayed(v), ") x", Occurrences(vals, v)>>

\* a value longer than 40 characters, three times, reported cut
C8_Witness ==
  /\ Validated
  /\ \E i \in RepeatedReasons :
       /\ Len(record.informant) > 40
       /\ verdict.reasons[i][2] = SubSeq(record.informant, 1, 37) \o <<".", ".", ".">>
       /\ verdict.reasons[i][4] = 3

\* C9: with a non-empty email equal to 3 or more of the five values the verdict
\* is invalid and holds both the repeated-value reason and "email repetido en
\* varios campos"; otherwise the latter is absent
C9_EmailRepeated ==
  Validated =>
    LET e == strip(record.email)
        n == Occurrences(FiveValues(record), e)
    IN  IF e # <<>> /\ n >= 3
        THEN /\ ~verdict.is_valid
             /\ RepeatedReasons # {}
             /\ Has(<<"email repetido en varios campos">>)
        ELSE ~Has(<<"email repetido en varios campos">>)

\* the email in exactly three of the five values, both reasons present
C9_Witness ==
  /\ Validated
  /\ record.email = FooBar
  /\ Occurrences(FiveValues(record), FooBar) = 3
  /\ RepeatedReasons # {}
  /\ Has(<<"email repetido en varios campos">>)

ShortReason == <<"descripción demasiado corta y no significativa">>

\* C10: the short-description reason is present exactly when the trimmed
\* description is non-empty, shorter than 10 characters and gibberish; the
\* classification is that of the per-field rule, so it comes with
\* "desc gibberish"
C10_ShortDescription ==
  Validated =>
    LET d == strip(record.desc)
    IN  /\ Has(ShortReason) <=> (d # <<>> /\ Len(d) < 10 /\ is_gibberish(d))
        /\ Has(ShortReason) <=> (Has(<<"desc", " gibberish">>) /\ Len(d) < 10)

C10_Witness == Validated /\ record.desc = Mash /\ Has(ShortReason)

\* the presence reason of a field of fields_to_check
PresenceReason(fname) ==
  CASE fname = "informant" -> <<"sin informant">>
    [] fname = "ubicacio"  -> <<"sin ubicació">>
    [] fname = "desc"      -> <<"sin descripció">>

ShapeReasons(fname) == {<<fname, " parece un email">>, <<fname, " gibberish">>}

\* C15: for informant, location and description, a field that is empty or
\* whitespace-only gets its presence reason and never an email-shape or a
\* gibberish reason in the same verdict; the email-shape and gibberish
\* reasons are given only to fields whose trimmed value is non-empty.
C15_PresenceExcludesShape ==
  Validated =>
    \A i \in DOMAIN FieldOrder :
      LET fname == FieldOrder[i]
      IN  /\ IsBlank(record[fname]) <=> Has(PresenceReason(fname))
          /\ Has(PresenceReason(fname)) =>
               \A reason \in ShapeReasons(fname) : ~Has(reason)
          /\ (\E reason \in ShapeReasons(fname) : Has(reason)) =>
               strip(record[fname]) # <<>>

\* a whitespace-only informant next to a location shaped like an email and a
\* description that is gibberish
C15_Witness ==
  /\ Validated
  /\ record.informant = Blank /\ record.ubicacio = FooBar /\ record.desc = Mash
  /\ Has(<<"sin informant">>)
  /\ Has(<<"ubicacio", " parece un email">>) /\ Has(<<"desc", " gibberish">>)
  /\ \A reason \in ShapeReasons("informant") : ~Has(reason)

(***************************************************************************)
(* Properties of the string helpers, under SpecStr                         *)
(***************************************************************************)
Returned(fn) == pc = "returned" /\ out.fn = fn

Trimmed(str) == strip(str) = str

NoAlpha(str) == \A i \in DOMAIN str : ~isalpha(str[i])

NonAlnum(str) == Cardinality({i \in DOMAIN str : ~isalnum(str[i])})

\* C4 as stated: a trimmed string without alphabetic characters has vowel
\* ratio 0 and, when 6 or more characters long, is gibberish only if more than
\* 0.4 of its characters are non-alphanumeric
C4_NoLettersNotFlagged ==
  /\ (Returned("vowel_ratio") /\ Trimmed(text) /\ NoAlpha(text)) => out.val[1] = 0
  /\ (Returned("is_gibberish") /\ Trimmed(text) /\ NoAlpha(text)
        /\ Len(text) >= 6 /\ out.val)
       => NonAlnum(text) * 10 > 4 * Len(text)

\* C4 as amended: a trimmed string without alphabetic characters has vowel
\* ratio 0, which is below 0.15, so it is gibberish exactly when it is 6 or
\* more characters long, whatever its share of non-alphanumeric characters
C4_NoLettersFlaggedFromSix ==
  /\ (Returned("vowel_ratio") /\ Trimmed(text) /\ NoAlpha(text)) => out.val[1] = 0
  /\ (Returned("is_gibberish") /\ Trimmed(text) /\ NoAlpha(text))
       => (out.val <=> Len(text) >= 6)

\* six digits, no non-alphanumeric character, classified as gibberish
C4_Witness ==
  Returned("is_gibberish") /\ text = Rep("1", 6) /\ out.val = TRUE

\* the vowels of C5: a, e, i, o, u in either case and the accented vowels
IsClaimedVowel(c) ==
  \/ lower(c) \in {"a", "e", "i", "o", "u"}
  \/ c \in {"a_acute", "e_acute", "i_acute", "o_acute", "u_acute",
            "a_grave", "e_grave", "i_grave", "o_grave", "u_grave"}

\* C5: vowel_ratio is the number of vowels, accented ones included, over the
\* number of alphabetic characters of any alphabet
C5_RatioOverAllLetters ==
  (Returned("vowel_ratio") /\ ~NoAlpha(text))
    => out.val[1] * Cardinality({i \in DOMAIN text : isalpha(text[i])})
         = Cardinality({i \in DOMAIN text : IsClaimedVowel(text[i])}) * out.val[2]

Xyz    == <<"x","y","z">>
XyzXyz == Xyz \o Xyz
Bcdfg  == <<"b","c","d","f","g">>

\* C6: is_gibberish is true exactly when the trimmed string is 6 or more long
\* with vowel ratio below 0.15 or more than 0.4 non-alphanumeric, or is a run
\* of 4 or more consonant letters; below 6 characters only a run of 4 or 5
\* consonants is gibberish; "xyz" is not, "xyzxyz" and "bcdfg" are, "" is not
C6_GibberishBranches ==
  Returned("is_gibberish") =>
    LET t  == strip(text)
        vr == vowel_ratio(t)
        consonants == \A i \in DOMAIN t : t[i] \in ConsonantLetters
    IN  /\ out.val <=>
             \/ /\ Len(t) >= 6
                /\ \/ vr[1] * 100 < 15 * vr[2]
                   \/ NonAlnum(t) * 10 > 4 * Len(t)
             \/ Len(t) >= 4 /\ consonants
        /\ Len(t) < 6 => (out.val <=> (Len(t) \in {4, 5} /\ consonants))
        /\ text = Xyz => ~out.val
        /\ text = XyzXyz => out.val
        /\ text = Bcdfg => out.val
        /\ text = <<>> => ~out.val

\* the short consonant run, which the length rule alone would miss
C6_Witness == Returned("is_gibberish") /\ text = Bcdfg /\ out.val = TRUE

(***************************************************************************)
(* Properties of try_parse_timestamp, under SpecTs                         *)
(***************************************************************************)
\* the candidates in the order of the claim: the raw timestamp when it is
\* non-empty, then the date followed by a space and the time when there is one
CandidatesInOrder(r) ==
     (IF r.timestamp_raw # <<>> THEN <<r.timestamp_raw>> ELSE <<>>)
  \o <<r.date \o (IF r.time # <<>> THEN <<" ">> \o r.time ELSE <<>>)>>

ParseAt(r, pair) ==
  strptime(strip(CandidatesInOrder(r)[pair[1]]), Formats[pair[2]])

\* the candidate and format pairs that parse
Hits(r) ==
  {pair \in (DOMAIN CandidatesInOrder(r)) \X (DOMAIN Formats) :
     ParseAt(r, pair) # ValueError}

Before(p, q) == p[1] < q[1] \/ (p[1] = q[1] /\ p[2] <= q[2])

\* C12: try_parse_timestamp returns the parse of the first pair, candidates
\* before formats, that parses, so the date and time candidate counts only
\* when the raw timestamp is empty or parses under no format; when no pair
\* parses the result is None and nothing is raised; "15/03/2024 14:30:00"
\* parses and "2024-03-15" does not.
C12_FirstMatchWins ==
  Returned("try_parse_timestamp") =>
    LET hits == Hits(record)
    IN  /\ out.val.kind \in {"None", "datetime"}
        /\ hits = {} => out.val = None
        /\ hits # {} =>
             \E first \in hits :
               /\ \A other \in hits : Before(first, other)
               /\ out.val = ParseAt(record, first)
        /\ (\E k \in DOMAIN Formats :
              strptime(strip(record.timestamp_raw), Formats[k]) # ValueError)
             => \E k \in DOMAIN Formats :
                  out.val = strptime(strip(record.timestamp_raw), Formats[k])
        /\ record.timestamp_raw = Date15At143000 => out.val = SomeDatetime
        /\ (record.timestamp_raw = IsoDate /\ record.date \in {Empty, IsoDate})
             => out.val = None

\* a raw timestamp that parses next to a date and a time that parse as well
C12_Witness ==
  /\ Returned("try_parse_timestamp")
  /\ record.timestamp_raw = Date15At143000
  /\ record.date = Date16 /\ record.time = <<"9", ":", "5">>
  /\ strptime(record.date \o <<" ">> \o record.time, FmtMinutes) # ValueError
  /\ out.val = SomeDatetime

\* the date and time candidate is what parses when the raw timestamp does not
C12_FallbackReached ==
  /\ Returned("try_parse_timestamp")
  /\ record.timestamp_raw = IsoDate /\ record.date = Date16
  /\ out.val.kind = "datetime" /\ out.val.day = 16

(***************************************************************************)
(* Properties of process, under SpecProcess                                *)
(***************************************************************************)
Summarised == pc \in {"summary", "done"}

Exported == pc = "done" /\ out.fn = "json.dump"

\* the places of the reasons of the dataset: record, then place in its list
ReasonPlaces ==
  {pl \in (DOMAIN incidencias) \X (1..13) :
     pl[2] \in DOMAIN incidencias[pl[1]].invalid_reasons}

ReasonAt(pl) == incidencias[pl[1]].invalid_reasons[pl[2]]

DistinctReasons == {ReasonAt(pl) : pl \in ReasonPlaces}

TotalOf(reason) == Cardinality({pl \in ReasonPlaces : ReasonAt(pl) = reason})

Earlier(p, q) == p[1] < q[1] \/ (p[1] = q[1] /\ p[2] < q[2])

\* reason a was met in the dataset before reason b
MetBefore(a, b) ==
  \E p \in ReasonPlaces :
    /\ ReasonAt(p) = a
    /\ \A q \in ReasonPlaces : ReasonAt(q) = b => Earlier(p, q)

\* item x ranks before item y: more occurrences, or as many and met first
RanksBefore(x, y) == x[2] > y[2] \/ (x[2] = y[2] /\ MetBefore(x[1], y[1]))

\* the items are distinct reasons with their totals, in ranking order
Ranked(items) ==
  /\ \A k \in DOMAIN items :
       items[k][1] \in DistinctReasons /\ items[k][2] = TotalOf(items[k][1])
  /\ \A k, l \in DOMAIN items : k < l => RanksBefore(items[k], items[l])

HoldsEveryReason(items) ==
  \A reason \in DistinctReasons : \E k \in DOMAIN items : items[k][1] = reason

CountsAgree ==
  /\ summary.valid_count + summary.invalid_count = Len(incidencias)
  /\ summary.valid_count =
       Cardinality({i \in DOMAIN incidencias :
                      incidencias[i].invalid_reasons = <<>>})
  /\ \A i \in DOMAIN incidencias :
       incidencias[i].is_valid <=> incidencias[i].invalid_reasons = <<>>

\* C13 as stated: once every record is handled the counts agree with the
\* verdicts and the ranking that is shown holds every distinct reason with
\* its total, by descending count, ties by first-encountered order.
C13_ShownHoldsEveryReason ==
  Summarised =>
    CountsAgree /\ Ranked(summary.shown) /\ HoldsEveryReason(summary.shown)

\* C13: once every record is handled the counts agree with the verdicts; the
\* counter holds every distinct reason with its total; the ranking that is
\* shown is in descending count, ties by first-encountered order, and holds
\* the first five reasons of that order; the ranking of the JSON export, in
\* the same order, holds every distinct reason.
C13_CountsAndRanking ==
  Summarised =>
    /\ CountsAgree
    /\ HoldsEveryReason(summary.invalid_reasons)
    /\ \A k \in DOMAIN summary.invalid_reasons :
         summary.invalid_reasons[k][2] = TotalOf(summary.invalid_reasons[k][1])
    /\ Ranked(summary.shown)
    /\ Len(summary.shown) =
         (IF Cardinality(DistinctReasons) < 5 THEN Cardinality(DistinctReasons)
          ELSE 5)
    /\ \A reason \in DistinctReasons :
         (\A k \in DOMAIN summary.shown : summary.shown[k][1] # reason) =>
           \A k \in DOMAIN summary.shown :
             RanksBefore(summary.shown[k], <<reason, TotalOf(reason)>>)
    /\ Exported =>
         /\ out.val.valid = summary.valid_count
         /\ out.val.invalid = summary.invalid_count
         /\ Ranked(out.val.invalid_reasons)
         /\ HoldsEveryReason(out.val.invalid_reasons)
         /\ Len(out.val.invalid_reasons) = Cardinality(DistinctReasons)

\* valid and invalid records, more than five distinct reasons, and among the
\* five shown a tie that the order of first encounter decides
C13_Witness ==
  /\ Exported
  /\ summary.valid_count > 0 /\ summary.invalid_count > 0
  /\ Cardinality(DistinctReasons) > 5 /\ Len(summary.shown) = 5
  /\ summary.shown[1][2] > summary.shown[2][2]
  /\ summary.shown[2][2] = summary.shown[3][2]

(***************************************************************************)
(* Properties of main of src/incidencias.py, under SpecPush                *)
(***************************************************************************)
Exited == pc = "exit"

\* an environment in which the written file exists
GitPushRuns ==
  {git_push(json_written, args.git_remote, args.git_branch, args.commit_msg,
            env).cmds : env \in {e \in GitEnvs : e.exists}}

\* C14: with --push and the JSON written, main runs the git commands of
\* git_push on the written file (git add, then git commit, then git push to
\* the configured remote and branch when each step succeeds); with --push
\* and no JSON written it runs no git command and exits with status 1.
C14_PushPublishesJson ==
  Exited =>
    /\ (args.push /\ json_written # None) => git_cmds \in GitPushRuns
    /\ (args.push /\ json_written = None) =>
         git_cmds = <<>> /\ exit_status = Exit(1)

\* the half of C14 that the code keeps: with --push and no JSON written no
\* git command is run and the exit status is 1
C14_NoJsonNoGit ==
  (Exited /\ args.push /\ json_written = None) =>
    git_cmds = <<>> /\ exit_status = Exit(1)

\* --push given, the JSON written, main over, and no git command was run
C14_PushSkipped ==
  /\ Exited /\ args.push /\ json_written # None
  /\ git_cmds = <<>> /\ exit_status = Exit(0)

====
